---------------------------- MODULE Spec2Model ----------------------------
(***************************************************************************)
(* Model of app/utils/images.py: the resolver local_upload_path_from_url,  *)
(* the containment guard _is_subpath and the batch deleter                 *)
(* delete_local_uploads, over a small POSIX file tree.                     *)
(*                                                                         *)
(* Strings are sequences of one-character strings ("NUL" stands for the    *)
(* character chr(0), "TAB" for chr(9)); the alphabet has no upper-case     *)
(* letters.  A path is the sequence of its parts (pathlib's Path.parts     *)
(* without the leading "/"), each part a string; two paths have the same   *)
(* str() exactly when they have the same parts.                            *)
(*                                                                         *)
(* The file tree holds regular files and directories only (the uploads     *)
(* directory is written by the upload handler; symbolic links inside it    *)
(* are outside the scope of this model), so Path.resolve() is the lexical  *)
(* elimination of ".." parts.  The one symbolic link the model knows is a  *)
(* possible link cycle at UPLOADS_DIR itself (rootResolvable = FALSE).     *)
(***************************************************************************)
EXTENDS Integers, Sequences, FiniteSets, Bags, TLC

(***************************************************************************)
(* Bounds                                                                  *)
(***************************************************************************)
\* longest input list drawn from the catalogue (the scenario lists are added)
MaxUrls == 2

(***************************************************************************)
(* str methods used by the module                                          *)
(***************************************************************************)
\* the value None, written as a path no string can spell
None == <<<<"None">>>>

\* characters removed by str.strip() without arguments
Whitespace == {" ", "TAB"}

\* the literal "/uploads/" of lines 90, 92, 105, 107
UPLOADS_PREFIX == <<"/", "u", "p", "l", "o", "a", "d", "s", "/">>

RECURSIVE lstrip(_, _)
\* str.lstrip(chars)
lstrip(s, chars) ==
    IF s # <<>> /\ Head(s) \in chars THEN lstrip(Tail(s), chars) ELSE s

RECURSIVE rstrip(_, _)
\* str.rstrip(chars)
rstrip(s, chars) ==
    IF s # <<>> /\ s[Len(s)] \in chars
    THEN rstrip(SubSeq(s, 1, Len(s) - 1), chars)
    ELSE s

\* str.strip()
strip(s) == rstrip(lstrip(s, Whitespace), Whitespace)

\* str.startswith(prefix)
startswith(s, prefix) ==
    /\ Len(s) >= Len(prefix)
    /\ SubSeq(s, 1, Len(prefix)) = prefix

\* str.removeprefix(prefix)
removeprefix(s, prefix) ==
    IF startswith(s, prefix) THEN SubSeq(s, Len(prefix) + 1, Len(s)) ELSE s

\* str.replace(old, new) for one-character old; new is a string
replace(s, old, new) ==
    LET RECURSIVE rep(_)
        rep(t) == IF t = <<>> THEN <<>>
                  ELSE (IF Head(t) = old THEN new ELSE <<Head(t)>>) \o rep(Tail(t))
    IN rep(s)

\* str.find(c) for a set of characters, 1-based; 0 when none occurs
find(s, chars) ==
    IF \E i \in DOMAIN s : s[i] \in chars
    THEN CHOOSE i \in DOMAIN s :
            /\ s[i] \in chars
            /\ \A j \in 1..(i - 1) : s[j] \notin chars
    ELSE 0

\* last index of the character c in s, 0 when it does not occur
rfind(s, c) ==
    IF \E i \in DOMAIN s : s[i] = c
    THEN CHOOSE i \in DOMAIN s :
            /\ s[i] = c
            /\ \A j \in (i + 1)..Len(s) : s[j] # c
    ELSE 0

\* c in s
contains(s, c) == \E i \in DOMAIN s : s[i] = c

\* _strip_slashes: s.lstrip("/\\")
_strip_slashes(s) == lstrip(s, {"/", "\\"})

(***************************************************************************)
(* urllib.parse.urlparse, as far as its path component                     *)
(***************************************************************************)
Letters ==
    {"a", "b", "c", "d", "e", "f", "g", "h", "i", "j", "k", "l", "m",
     "n", "o", "p", "q", "r", "s", "t", "u", "v", "w", "x", "y", "z"}
Digits == {"0", "1", "2", "3", "4", "5", "6", "7", "8", "9"}
scheme_chars == Letters \cup Digits \cup {"+", "-", "."}
\* schemes of urllib.parse.uses_params that the alphabet can spell
uses_params ==
    {<<>>, <<"f", "t", "p">>, <<"h", "t", "t", "p">>,
     <<"h", "t", "t", "p", "s">>}
\* leading characters urlsplit strips, and characters it deletes
C0_CONTROL_OR_SPACE == {"NUL", "TAB", " "}
UNSAFE_URL_BYTES_TO_REMOVE == {"TAB"}

\* urlsplit: the scheme is cut off when the text before the first ":" is a
\* letter followed by scheme characters
SplitScheme(url) ==
    LET i == find(url, {":"})
    IN IF /\ i > 1
          /\ url[1] \in Letters
          /\ \A j \in 1..(i - 1) : url[j] \in scheme_chars
       THEN [scheme |-> SubSeq(url, 1, i - 1), rest |-> SubSeq(url, i + 1, Len(url))]
       ELSE [scheme |-> <<>>, rest |-> url]

\* urlsplit: "//netloc" runs to the first of "/", "?", "#"
SplitNetloc(url) ==
    IF Len(url) >= 2 /\ url[1] = "/" /\ url[2] = "/"
    THEN LET after == SubSeq(url, 3, Len(url))
             d == find(after, {"/", "?", "#"})
         IN IF d = 0
            THEN [netloc |-> after, rest |-> <<>>]
            ELSE [netloc |-> SubSeq(after, 1, d - 1),
                  rest |-> SubSeq(after, d, Len(after))]
    ELSE [netloc |-> <<>>, rest |-> url]

\* text before the first occurrence of c (the whole text when c is absent)
Before(s, c) ==
    LET i == find(s, {c}) IN IF i = 0 THEN s ELSE SubSeq(s, 1, i - 1)

\* urllib.parse._splitparams: the parameters of the last path segment
_splitparams(url) ==
    LET slash == rfind(url, "/")
        tail == SubSeq(url, slash + 1, Len(url))
        i == find(tail, {";"})
    IN IF i = 0 THEN url ELSE SubSeq(url, 1, slash + i - 1)

\* urlparse(u): [raises |-> TRUE] for ValueError("Invalid IPv6 URL"),
\* else the path component
urlparse(u) ==
    LET cleaned == replace(lstrip(u, C0_CONTROL_OR_SPACE), "TAB", <<>>)
        sch == SplitScheme(cleaned)
        net == SplitNetloc(sch.rest)
        badv6 == \/ contains(net.netloc, "[") /\ ~contains(net.netloc, "]")
                 \/ contains(net.netloc, "]") /\ ~contains(net.netloc, "[")
        noFrag == Before(net.rest, "#")
        noQuery == Before(noFrag, "?")
        path == IF sch.scheme \in uses_params /\ contains(noQuery, ";")
                THEN _splitparams(noQuery)
                ELSE noQuery
    IN IF badv6
       THEN [raises |-> TRUE, path |-> <<>>]
       ELSE [raises |-> FALSE, path |-> path]

(***************************************************************************)
(* pathlib on POSIX                                                        *)
(***************************************************************************)
\* BASE_DIR = Path(__file__).resolve().parents[2]; here the module is
\* deployed as /app/utils/images.py, so BASE_DIR is the filesystem root
BASE_DIR == <<>>
DATA_DIR == BASE_DIR \o <<<<"d", "a", "t", "a">>>>
UPLOADS_DIR == DATA_DIR \o <<<<"u", "p", "l", "o", "a", "d", "s">>>>

DOTDOT == <<".", ".">>
DOT == <<".">>

\* the "/"-separated pieces of a string, empty pieces included
RECURSIVE split(_)
split(s) ==
    LET i == find(s, {"/"})
    IN IF i = 0 THEN <<s>>
       ELSE <<SubSeq(s, 1, i - 1)>> \o split(SubSeq(s, i + 1, Len(s)))

\* PurePosixPath parsing: empty and "." pieces are dropped, ".." is kept
PathParts(s) == SelectSeq(split(s), LAMBDA part : part # <<>> /\ part # DOT)

\* base / s: an absolute s replaces base
JoinPath(base, s) ==
    IF s # <<>> /\ Head(s) = "/" THEN PathParts(s) ELSE base \o PathParts(s)

\* str.startswith on paths: parent's parts are the first parts of p
IsPrefix(parent, p) ==
    /\ Len(p) >= Len(parent)
    /\ SubSeq(p, 1, Len(parent)) = parent

\* os.path.realpath on a tree without symbolic links: ".." drops the part
\* before it, and stays at "/" when there is none
RECURSIVE Normalize(_, _)
Normalize(done, rest) ==
    IF rest = <<>> THEN done
    ELSE IF Head(rest) = DOTDOT
         THEN Normalize(IF done = <<>> THEN <<>> ELSE SubSeq(done, 1, Len(done) - 1),
                        Tail(rest))
         ELSE Normalize(Append(done, Head(rest)), Tail(rest))

\* a part holding chr(0): every system call on the path raises ValueError
HasNul(p) == \E i \in DOMAIN p : contains(p[i], "NUL")

(***************************************************************************)
(* State                                                                   *)
(***************************************************************************)
VARIABLES
    files,          \* regular files on disk, each by its canonical path
    locked,         \* files whose unlink raises (no permission, held open)
    rootResolvable, \* FALSE: UPLOADS_DIR is a symbolic-link cycle
    hashSeed,       \* str hash seed of the interpreter (set iteration order)
    pc,             \* position of each caller in delete_local_uploads
    urls,           \* argument of the running or last call
    todo,           \* unique_urls still to be iterated, in iteration order
    p,              \* path of the URL being processed, or None
    removed,        \* local list removed
    candidates,     \* local list candidates
    raised,         \* an exception escaped delete_local_uploads
    processed,      \* history: URLs the loop has taken
    absent,         \* history: URLs that resolved to None
    before,         \* history: the files on disk when the call began
    seen,           \* history: paths whose file existed at p.exists()
    attempted,      \* history: paths p.unlink() was called on
    unlinked,       \* history: files this call took off the disk
    raced,          \* history: paths whose file was gone at p.unlink()
    failed,         \* history: paths whose p.unlink() raised
    prev            \* history: result of the preceding call on the same list

vars == <<files, locked, rootResolvable, hashSeed, pc, urls, todo, p, removed,
          candidates, raised, processed, absent, before, seen, attempted,
          unlinked, raced, failed, prev>>

\* concurrent callers of delete_local_uploads
Procs == {1, 2}

(***************************************************************************)
(* The file tree                                                           *)
(***************************************************************************)
A_JPG == <<"a", ".", "j", "p", "g">>
B_PNG == <<"b", ".", "p", "n", "g">>
SUB == <<"s", "u", "b">>
ETC == <<"e", "t", "c">>
PASSWD == <<"p", "a", "s", "s", "w", "d">>
SECRET_TXT == <<"s", "e", "c", "r", "e", "t", ".", "t", "x", "t">>
MISSING_JPG == <<"m", "i", "s", "s", "i", "n", "g", ".", "j", "p", "g">>

\* directories; none is ever created or removed
Dirs == {<<>>, DATA_DIR, UPLOADS_DIR, UPLOADS_DIR \o <<SUB>>, <<ETC>>}
\* files that may lie in the uploads directory
UploadFiles == {UPLOADS_DIR \o <<A_JPG>>, UPLOADS_DIR \o <<B_PNG>>}
\* files next to and above the uploads directory
OutsideFiles == {DATA_DIR \o <<SECRET_TXT>>, <<ETC, PASSWD>>}

\* no entry at the path; resolve() raised
Missing == <<<<"Missing">>>>
Failure == <<<<"Failure">>>>

\* the kernel's walk along the parts of an absolute path: the entry the
\* path names, or Missing (ENOENT, ENOTDIR, and ELOOP at a cyclic link)
RECURSIVE Walk(_, _)
Walk(cur, rest) ==
    IF cur = UPLOADS_DIR /\ ~rootResolvable THEN Missing
    ELSE IF rest = <<>> THEN cur
    ELSE IF cur \notin Dirs THEN Missing
    ELSE IF Head(rest) = DOTDOT
         THEN Walk(IF cur = <<>> THEN <<>> ELSE SubSeq(cur, 1, Len(cur) - 1),
                   Tail(rest))
    ELSE IF Append(cur, Head(rest)) \in Dirs \cup files
         THEN Walk(Append(cur, Head(rest)), Tail(rest))
    ELSE Missing

Lookup(path) == Walk(<<>>, path)

\* Path.resolve(): raises ValueError on chr(0) and RuntimeError on a link
\* cycle (Failure), else the canonical path
PathResolve(path) ==
    IF HasNul(path) THEN Failure
    ELSE IF IsPrefix(UPLOADS_DIR, path) /\ ~rootResolvable THEN Failure
    ELSE Normalize(<<>>, path)

\* Path.exists(): False when the path names nothing, also on ValueError
exists(path) == ~HasNul(path) /\ Lookup(path) # Missing

(***************************************************************************)
(* _is_subpath and local_upload_path_from_url                              *)
(***************************************************************************)
\* the guard without canonicalization: compares the paths as written
_is_subpath_unresolved(path, parent) == IsPrefix(parent, path)

\* the guard failing open: a failed canonicalization counts as contained
_is_subpath_failopen(path, parent) ==
    \/ PathResolve(path) = Failure
    \/ PathResolve(parent) = Failure
    \/ IsPrefix(PathResolve(parent), PathResolve(path))

\* p.resolve().relative_to(parent.resolve()) inside try/except Exception
_is_subpath(path, parent) ==
    /\ PathResolve(path) # Failure
    /\ PathResolve(parent) # Failure
    /\ IsPrefix(PathResolve(parent), PathResolve(path))

\* lines 92-94 and 107-108: the path joined onto UPLOADS_DIR
CandidatePath(path) == JoinPath(UPLOADS_DIR, _strip_slashes(removeprefix(path, UPLOADS_PREFIX)))

\* the path returned without asking the guard
Guarded_off(path) == path

\* lines 96 and 109: return p if _is_subpath(p, UPLOADS_DIR) else None
Guarded(path) == IF _is_subpath(path, UPLOADS_DIR) THEN path ELSE None

\* the absolute branch testing the prefix after the leading slashes are gone
AbsoluteBranch_stripped(u) ==
    LET uu == urlparse(u)
        path == replace(uu.path, "\\", <<"/">>)
    IN IF uu.raises THEN None
       ELSE IF startswith(_strip_slashes(path), Tail(UPLOADS_PREFIX))
            THEN Guarded(JoinPath(UPLOADS_DIR,
                     _strip_slashes(removeprefix(_strip_slashes(path), Tail(UPLOADS_PREFIX)))))
            ELSE None

\* lines 99-115
AbsoluteBranch(u) ==
    LET uu == urlparse(u)
        path == replace(uu.path, "\\", <<"/">>)
    IN IF uu.raises THEN None
       ELSE IF startswith(path, UPLOADS_PREFIX)
            THEN Guarded(CandidatePath(path))
            ELSE None

\* the path the URL is joined to before the guard sees it, None when the
\* URL is not under /uploads/
Unguarded(url) ==
    LET u == strip(url)
    IN IF url = <<>> THEN None
       ELSE IF startswith(u, UPLOADS_PREFIX) THEN CandidatePath(u)
       ELSE LET uu == urlparse(u)
                path == replace(uu.path, "\\", <<"/">>)
            IN IF ~uu.raises /\ startswith(path, UPLOADS_PREFIX)
               THEN CandidatePath(path)
               ELSE None

local_upload_path_from_url(url) ==
    LET u == strip(url)
    IN IF url = <<>> THEN None
       ELSE IF startswith(u, UPLOADS_PREFIX) THEN Guarded(CandidatePath(u))
       ELSE AbsoluteBranch(u)

(***************************************************************************)
(* The URLs the input lists are drawn from                                 *)
(***************************************************************************)
\* '/uploads/a.jpg'
U_REL_A ==
    <<"/", "u", "p", "l", "o", "a", "d", "s", "/", "a", ".", "j", "p", "g">>
\* 'http://host/uploads/b.png'
U_ABS_B ==
    <<"h", "t", "t", "p", ":", "/", "/", "h", "o", "s", "t", "/", "u", "p",
      "l", "o", "a", "d", "s", "/", "b", ".", "p", "n", "g">>
\* ' /uploads/a.jpg '
U_SPACED_A ==
    <<" ", "/", "u", "p", "l", "o", "a", "d", "s", "/", "a", ".", "j", "p",
      "g", " ">>
\* 'http://host/uploads/a.jpg;p?v'
U_ABS_A_QUERY ==
    <<"h", "t", "t", "p", ":", "/", "/", "h", "o", "s", "t", "/", "u", "p",
      "l", "o", "a", "d", "s", "/", "a", ".", "j", "p", "g", ";", "p", "?",
      "v">>
\* '/uploads/sub/../a.jpg'
U_VIA_SUB_A ==
    <<"/", "u", "p", "l", "o", "a", "d", "s", "/", "s", "u", "b", "/", ".",
      ".", "/", "a", ".", "j", "p", "g">>
\* '/uploads/../secret.txt'
U_TRAV_SECRET ==
    <<"/", "u", "p", "l", "o", "a", "d", "s", "/", ".", ".", "/", "s", "e",
      "c", "r", "e", "t", ".", "t", "x", "t">>
\* '/uploads/../../etc/passwd'
U_TRAV_PASSWD ==
    <<"/", "u", "p", "l", "o", "a", "d", "s", "/", ".", ".", "/", ".", ".",
      "/", "e", "t", "c", "/", "p", "a", "s", "s", "w", "d">>
\* 'http://host/uploads/../secret.txt'
U_ABS_TRAV ==
    <<"h", "t", "t", "p", ":", "/", "/", "h", "o", "s", "t", "/", "u", "p",
      "l", "o", "a", "d", "s", "/", ".", ".", "/", "s", "e", "c", "r", "e",
      "t", ".", "t", "x", "t">>
\* '/uploads/'
U_ROOT ==
    <<"/", "u", "p", "l", "o", "a", "d", "s", "/">>
\* '/uploads/sub'
U_SUBDIR ==
    <<"/", "u", "p", "l", "o", "a", "d", "s", "/", "s", "u", "b">>
\* '/uploads/missing.jpg'
U_MISSING ==
    <<"/", "u", "p", "l", "o", "a", "d", "s", "/", "m", "i", "s", "s", "i",
      "n", "g", ".", "j", "p", "g">>
\* '\\uploads\\\\b.png'
U_BACKSLASH_B ==
    <<"\\", "u", "p", "l", "o", "a", "d", "s", "\\", "\\", "b", ".", "p",
      "n", "g">>
\* '/up<TAB>loads/b.png'
U_TAB_B ==
    <<"/", "u", "p", "TAB", "l", "o", "a", "d", "s", "/", "b", ".", "p",
      "n", "g">>
\* '/uploads/a<NUL>b'
U_NUL ==
    <<"/", "u", "p", "l", "o", "a", "d", "s", "/", "a", "NUL", "b">>
\* 'https://external.com/c.jpg'
U_EXTERNAL ==
    <<"h", "t", "t", "p", "s", ":", "/", "/", "e", "x", "t", "e", "r", "n",
      "a", "l", ".", "c", "o", "m", "/", "c", ".", "j", "p", "g">>
\* 'data:image/png;base64,xx'
U_DATA ==
    <<"d", "a", "t", "a", ":", "i", "m", "a", "g", "e", "/", "p", "n", "g",
      ";", "b", "a", "s", "e", "6", "4", ",", "x", "x">>
\* ''
U_EMPTY ==
    <<>>
\* ' '
U_BLANK ==
    <<" ">>
\* 'http://[h/uploads/a.jpg'
U_BAD_IPV6 ==
    <<"h", "t", "t", "p", ":", "/", "/", "[", "h", "/", "u", "p", "l", "o",
      "a", "d", "s", "/", "a", ".", "j", "p", "g">>
\* 'uploads/a.jpg'
U_NO_SLASH ==
    <<"u", "p", "l", "o", "a", "d", "s", "/", "a", ".", "j", "p", "g">>

Catalogue ==
    <<U_REL_A, U_ABS_B, U_SPACED_A, U_ABS_A_QUERY, U_VIA_SUB_A,
      U_TRAV_SECRET, U_TRAV_PASSWD, U_ABS_TRAV, U_ROOT, U_SUBDIR,
      U_MISSING, U_BACKSLASH_B, U_TAB_B, U_NUL, U_EXTERNAL, U_DATA,
      U_EMPTY, U_BLANK, U_BAD_IPV6, U_NO_SLASH>>

\* the scenario list of the specification's section 8
SCENARIO_MIXED == <<U_REL_A, U_ABS_B, U_EXTERNAL, U_DATA, U_EMPTY>>

Range(s) == {s[i] : i \in DOMAIN s}

\* position of a string in the catalogue
Index(u) == CHOOSE i \in DOMAIN Catalogue : Catalogue[i] = u

\* the lists a caller may pass: line 144 makes a set of the list, so the
\* order of the list has no effect and the lists are drawn in catalogue
\* order (repeated strings included)
InputLists ==
    {list \in UNION {[1..n -> Range(Catalogue)] : n \in 0..MaxUrls} :
        \A i \in 1..(Len(list) - 1) : Index(list[i]) <= Index(list[i + 1])}
    \cup {SCENARIO_MIXED}

\* the lists two concurrent callers pass
RaceLists == {<<U_REL_A>>, <<U_REL_A, U_ABS_B>>, <<U_VIA_SUB_A, U_MISSING>>}

(***************************************************************************)
(* delete_local_uploads                                                    *)
(***************************************************************************)
\* modulus of the model's string hash
HASH_MOD == 23
\* hash seeds: one that iterates a set in catalogue order and one that
\* iterates it in the opposite order
Seeds == {1, HASH_MOD - 1}

\* hash of a catalogue string under a seed; distinct strings differ
Hash(u, seed) ==
    (Index(u) * seed) % HASH_MOD

\* line 144: the set of the non-blank strings of the list
unique_urls(list) == {x \in Range(list) : strip(x) # <<>>}

RECURSIVE InHashOrder(_, _)
\* the elements of a set of strings in the order of their hashes
InHashOrder(S, seed) ==
    IF S = {} THEN <<>>
    ELSE LET first == CHOOSE x \in S : \A y \in S : Hash(x, seed) <= Hash(y, seed)
         IN <<first>> \o InHashOrder(S \ {first}, seed)

\* the loop running over the list itself: no set() around the comprehension
IterationOrder_list(list, seed) == SelectSeq(list, LAMBDA x : strip(x) # <<>>)

\* lines 144-146: the order in which "for u in unique_urls" takes the URLs
IterationOrder(list, seed) == InHashOrder(unique_urls(list), seed)

\* candidates.append dropped
candidates_append_dropped(list, path) == list

\* line 153: candidates.append(str(p))
candidates_append(list, path) == Append(list, path)

\* the existence check always passing
exists_unchecked(path) == TRUE

\* line 157: if p.exists()
p_exists(path) == exists(path)

\* unlink(missing_ok=False): a missing file raises FileNotFoundError
missing_ok_false == FALSE

\* line 158: missing_ok=True
missing_ok == TRUE

\* unlink leaving the file on disk
unlink_files_kept(fs, f) == fs

\* the effect of a successful unlink on the disk
unlink_files(fs, f) == fs \ {f}

\* the outcome of p.unlink(missing_ok=True) at line 158:
\* "raise" (IsADirectoryError, PermissionError, ValueError), "gone" (nothing
\* at the path and missing_ok) or "unlinked"
UnlinkOutcome(path) ==
    IF HasNul(path) THEN "raise"
    ELSE IF Lookup(path) = Missing THEN (IF missing_ok THEN "gone" ELSE "raise")
    ELSE IF Lookup(path) \in Dirs \/ Lookup(path) \in locked THEN "raise"
    ELSE "unlinked"

\* no handler around the deletion: the exception leaves the function
except_delete_missing == [pc |-> "done", raised |-> TRUE]

\* lines 160-163: except Exception: pass, the loop goes on
except_delete == [pc |-> "iter", raised |-> FALSE]

NoPrev == [valid |-> FALSE, removed |-> <<>>, candidates |-> <<>>]

TypeOK ==
    /\ files \subseteq UploadFiles \cup OutsideFiles
    /\ locked \subseteq UploadFiles
    /\ rootResolvable \in BOOLEAN
    /\ hashSeed \in Seeds
    /\ pc \in [Procs -> {"idle", "iter", "exists", "unlink", "done"}]
    /\ \A i \in Procs : urls[i] \in InputLists
    /\ raised \in [Procs -> BOOLEAN]

Init ==
    /\ rootResolvable \in BOOLEAN
    /\ \E inside \in SUBSET UploadFiles :
          /\ ~rootResolvable => inside = {}
          /\ files = inside \cup OutsideFiles
    /\ locked \in SUBSET (files \cap UploadFiles)
    /\ hashSeed \in Seeds
    /\ pc = [i \in Procs |-> "idle"]
    /\ urls = [i \in Procs |-> <<>>]
    /\ todo = [i \in Procs |-> <<>>]
    /\ p = [i \in Procs |-> None]
    /\ removed = [i \in Procs |-> <<>>]
    /\ candidates = [i \in Procs |-> <<>>]
    /\ raised = [i \in Procs |-> FALSE]
    /\ processed = [i \in Procs |-> {}]
    /\ absent = [i \in Procs |-> {}]
    /\ before = [i \in Procs |-> {}]
    /\ seen = [i \in Procs |-> {}]
    /\ attempted = [i \in Procs |-> {}]
    /\ unlinked = [i \in Procs |-> {}]
    /\ raced = [i \in Procs |-> {}]
    /\ failed = [i \in Procs |-> {}]
    /\ prev = [i \in Procs |-> NoPrev]

\* lines 140-144: the call starts with empty lists and the unique URLs
Call(self, list) ==
    /\ pc[self] \in {"idle", "done"}
    /\ ~raised[self]
    /\ urls' = [urls EXCEPT ![self] = list]
    /\ todo' = [todo EXCEPT ![self] = IterationOrder(list, hashSeed)]
    /\ removed' = [removed EXCEPT ![self] = <<>>]
    /\ candidates' = [candidates EXCEPT ![self] = <<>>]
    /\ p' = [p EXCEPT ![self] = None]
    /\ processed' = [processed EXCEPT ![self] = {}]
    /\ absent' = [absent EXCEPT ![self] = {}]
    /\ before' = [before EXCEPT ![self] = files]
    /\ seen' = [seen EXCEPT ![self] = {}]
    /\ attempted' = [attempted EXCEPT ![self] = {}]
    /\ unlinked' = [unlinked EXCEPT ![self] = {}]
    /\ raced' = [raced EXCEPT ![self] = {}]
    /\ failed' = [failed EXCEPT ![self] = {}]
    /\ prev' = [prev EXCEPT ![self] =
                   IF pc[self] = "done" /\ list = urls[self]
                   THEN [valid |-> TRUE, removed |-> removed[self],
                         candidates |-> candidates[self]]
                   ELSE NoPrev]
    /\ pc' = [pc EXCEPT ![self] = "iter"]
    /\ UNCHANGED <<files, locked, rootResolvable, hashSeed, raised>>

\* lines 146-153: the loop takes the next URL, resolves it, and either
\* skips it or appends its path to candidates
Resolve(self) ==
    /\ pc[self] = "iter"
    /\ todo[self] # <<>>
    /\ LET u == Head(todo[self])
           path == local_upload_path_from_url(u)
       IN /\ todo' = [todo EXCEPT ![self] = Tail(@)]
          /\ processed' = [processed EXCEPT ![self] = @ \cup {u}]
          /\ p' = [p EXCEPT ![self] = path]
          /\ IF path = None
             THEN /\ absent' = [absent EXCEPT ![self] = @ \cup {u}]
                  /\ UNCHANGED <<candidates, pc>>
             ELSE /\ candidates' = [candidates EXCEPT ![self] = candidates_append(@, path)]
                  /\ pc' = [pc EXCEPT ![self] = "exists"]
                  /\ UNCHANGED absent
    /\ UNCHANGED <<files, locked, rootResolvable, hashSeed, urls, removed,
                   raised, before, seen, attempted, unlinked, raced, failed,
                   prev>>

\* line 157: if p.exists()
CheckExists(self) ==
    /\ pc[self] = "exists"
    /\ pc' = [pc EXCEPT ![self] = IF p_exists(p[self]) THEN "unlink" ELSE "iter"]
    /\ seen' = [seen EXCEPT ![self] =
                   IF exists(p[self]) THEN @ \cup {p[self]} ELSE @]
    /\ UNCHANGED <<files, locked, rootResolvable, hashSeed, urls, todo, p,
                   removed, candidates, raised, processed, absent, before,
                   attempted, unlinked, raced, failed, prev>>

\* lines 158-163: p.unlink(missing_ok=True), removed.append(str(p)), and the
\* handler that swallows what the two raise
Unlink(self) ==
    /\ pc[self] = "unlink"
    /\ LET path == p[self]
           outcome == UnlinkOutcome(path)
       IN CASE outcome = "unlinked" ->
                 /\ files' = unlink_files(files, Lookup(path))
                 /\ locked' = locked \ {Lookup(path)}
                 /\ unlinked' = [unlinked EXCEPT ![self] = @ \cup {Lookup(path)}]
                 /\ removed' = [removed EXCEPT ![self] = Append(@, path)]
                 /\ pc' = [pc EXCEPT ![self] = "iter"]
                 /\ UNCHANGED <<failed, raised>>
            [] outcome = "gone" ->
                 /\ removed' = [removed EXCEPT ![self] = Append(@, path)]
                 /\ pc' = [pc EXCEPT ![self] = "iter"]
                 /\ UNCHANGED <<files, locked, unlinked, failed, raised>>
            [] outcome = "raise" ->
                 /\ failed' = [failed EXCEPT ![self] = @ \cup {path}]
                 /\ pc' = [pc EXCEPT ![self] = except_delete.pc]
                 /\ raised' = [raised EXCEPT ![self] = except_delete.raised]
                 /\ UNCHANGED <<files, locked, unlinked, removed>>
    /\ attempted' = [attempted EXCEPT ![self] = @ \cup {p[self]}]
    /\ raced' = [raced EXCEPT ![self] =
                    IF ~HasNul(p[self]) /\ Lookup(p[self]) = Missing
                    THEN @ \cup {p[self]} ELSE @]
    /\ UNCHANGED <<rootResolvable, hashSeed, urls, todo, p, candidates,
                   processed, absent, before, seen, prev>>

\* line 165: return removed, candidates
Return(self) ==
    /\ pc[self] = "iter"
    /\ todo[self] = <<>>
    /\ pc' = [pc EXCEPT ![self] = "done"]
    /\ UNCHANGED <<files, locked, rootResolvable, hashSeed, urls, todo, p,
                   removed, candidates, raised, processed, absent, before,
                   seen, attempted, unlinked, raced, failed, prev>>

\* another actor removes a file of the uploads directory
OtherRemove(f) ==
    /\ f \in files \cap UploadFiles
    /\ files' = files \ {f}
    /\ locked' = locked \ {f}
    /\ UNCHANGED <<rootResolvable, hashSeed, pc, urls, todo, p, removed,
                   candidates, raised, processed, absent, before, seen,
                   attempted, unlinked, raced, failed, prev>>

\* the first call of a caller, on any list
FirstCall(self) ==
    /\ pc[self] = "idle"
    /\ \E list \in InputLists : Call(self, list)

\* the same caller calls again, in succession, on the same list.  (A later
\* call on another list adds no state: it forgets the lists of the call
\* before it, and the disk it starts from is one of the initial disks.)
CallAgain(self) ==
    /\ pc[self] = "done"
    /\ Call(self, urls[self])

\* one caller, nothing else touching the disk
Next ==
    \/ FirstCall(1)
    \/ CallAgain(1)
    \/ Resolve(1)
    \/ CheckExists(1)
    \/ Unlink(1)
    \/ Return(1)

Spec == Init /\ [][Next]_vars

\* two callers and another actor, all on the same disk
NextConc ==
    \/ \E self \in Procs : \E list \in RaceLists : Call(self, list)
    \/ \E self \in Procs : Resolve(self)
    \/ \E self \in Procs : CheckExists(self)
    \/ \E self \in Procs : Unlink(self)
    \/ \E self \in Procs : Return(self)
    \/ \E f \in UploadFiles : OtherRemove(f)

SpecConc == Init /\ [][NextConc]_vars

(***************************************************************************)
(* Properties                                                              *)
(***************************************************************************)
\* the canonical form of a path that has one
Canonical(path) == Normalize(<<>>, path)

\* the canonical form lies in the uploads directory or is that directory
WithinRoot(path) == IsPrefix(UPLOADS_DIR, Canonical(path))

\* the canonical form lies below the uploads directory
BelowRoot(path) == WithinRoot(path) /\ Canonical(path) # UPLOADS_DIR

Entries(self) == Range(removed[self]) \cup Range(candidates[self])

NoDuplicates(list) ==
    \A i, j \in DOMAIN list : list[i] = list[j] => i = j

Done(self) == pc[self] = "done"

\* C1 as stated: the resolver returns None or a path whose canonical form
\* is a descendant of UPLOADS_DIR, the two traversal inputs resolve to None,
\* and every entry of removed and of candidates is such a descendant.
C1_Descendant ==
    /\ p[1] # None => BelowRoot(p[1])
    /\ \A e \in Entries(1) : BelowRoot(e)
    /\ \A u \in {U_TRAV_SECRET, U_TRAV_PASSWD} :
          u \in processed[1] => u \in absent[1]

\* C1 amended: the resolver returns None or a path whose canonical form is
\* UPLOADS_DIR itself or a descendant of it ("/uploads/" resolves to the
\* directory); the traversal inputs resolve to None; every entry of removed
\* and of candidates is UPLOADS_DIR or a descendant of it.
C1_WithinRoot ==
    /\ p[1] # None => WithinRoot(p[1])
    /\ \A e \in Entries(1) : WithinRoot(e)
    /\ \A u \in {U_TRAV_SECRET, U_TRAV_PASSWD, U_ABS_TRAV} :
          u \in processed[1] => u \in absent[1]

\* a call that skipped a traversal URL and listed a path of the directory
C1_Witness ==
    /\ Done(1)
    /\ U_TRAV_PASSWD \in absent[1]
    /\ candidates[1] # <<>>

\* C2: a step changes the disk only by removing files; a removed file lies
\* in the uploads directory and is named by the path some URL of the input
\* list resolves to; files outside the directory stay.
C2_Frame ==
    [][/\ files' \subseteq files
       /\ \A f \in files \ files' :
             /\ IsPrefix(UPLOADS_DIR, f)
             /\ \E i \in DOMAIN urls[1] :
                   /\ local_upload_path_from_url(urls[1][i]) # None
                   /\ Canonical(local_upload_path_from_url(urls[1][i])) = f
       /\ OutsideFiles \subseteq files']_vars

\* a call that met a traversal URL and removed an upload
C2_Witness ==
    /\ Done(1)
    /\ U_TRAV_SECRET \in processed[1]
    /\ unlinked[1] # {}
    /\ OutsideFiles \subseteq files

\* C3: no exception leaves delete_local_uploads; when it returns every
\* unique URL has been taken by the loop; a path whose deletion raised is
\* in candidates and not in removed.
C3_NeverRaises ==
    /\ ~raised[1]
    /\ Done(1) => processed[1] = unique_urls(urls[1])
    /\ \A q \in failed[1] :
          /\ q \in Range(candidates[1])
          /\ q \notin Range(removed[1])

\* a deletion failed first and a later URL of the batch was still deleted
C3_Witness ==
    /\ Done(1)
    /\ Len(candidates[1]) = 2
    /\ candidates[1][1] \in failed[1]
    /\ removed[1] = <<candidates[1][2]>>

\* C4: every path of removed is a path of candidates.
C4_RemovedSubsetCandidates ==
    Range(removed[1]) \subseteq Range(candidates[1])

\* a call that removed a file and listed one more candidate than it removed
C4_Witness ==
    /\ Done(1)
    /\ removed[1] # <<>>
    /\ Len(candidates[1]) > Len(removed[1])

\* C5: when a call returns that followed a call on the same list, its
\* removed is empty and its candidates is the candidates of the call before.
C5_Idempotent ==
    (Done(1) /\ prev[1].valid) =>
        /\ removed[1] = <<>>
        /\ candidates[1] = prev[1].candidates

\* the second call returned after a first call that had removed a file and
\* had listed two candidates
C5_Witness ==
    /\ Done(1)
    /\ prev[1].valid
    /\ prev[1].removed # <<>>
    /\ Len(prev[1].candidates) = 2

\* no two distinct strings of the list resolve to the same path
ResolveInjectiveOn(list) ==
    \A u, v \in unique_urls(list) :
        (u # v /\ local_upload_path_from_url(u) # None)
            => local_upload_path_from_url(u) # local_upload_path_from_url(v)

\* C6 as stated: neither removed nor candidates holds the same path twice.
C6_NoDuplicateEntries ==
    Done(1) => NoDuplicates(removed[1]) /\ NoDuplicates(candidates[1])

\* C6 amended: equal strings of the list are processed once, so candidates
\* has one entry for each distinct non-blank string that resolves; removed
\* never holds the same path twice; candidates holds no path twice when no
\* two distinct strings of the list resolve to the same path.
C6_OncePerDistinctString ==
    Done(1) =>
        /\ Len(candidates[1]) + Cardinality(absent[1])
              = Cardinality(unique_urls(urls[1]))
        /\ NoDuplicates(removed[1])
        /\ ResolveInjectiveOn(urls[1]) => NoDuplicates(candidates[1])

\* the list holds the same string twice and its file was removed once
C6_Witness ==
    /\ Done(1)
    /\ Len(urls[1]) = 2
    /\ urls[1][1] = urls[1][2]
    /\ Len(removed[1]) = 1

\* C7 as stated: with two callers and another actor on the same disk no
\* call raises, and removed lists only files the call itself took off the
\* disk.
C7_RemovedOnlyOwn ==
    \A self \in Procs :
        /\ ~raised[self]
        /\ \A q \in Range(removed[self]) : Canonical(q) \in unlinked[self]

\* C7 amended: no call raises; a file that was there at the existence check
\* and gone at the unlink is listed in removed all the same (missing_ok), so
\* removed lists the files that existed at the call's existence check and
\* are gone after its unlink, removed by the call or by the other actor.
C7_RemovedGone ==
    \A self \in Procs :
        /\ ~raised[self]
        /\ raced[self] \subseteq Range(removed[self])
        /\ \A q \in Range(removed[self]) :
              /\ q \in seen[self]
              /\ Canonical(q) \notin files
              /\ Canonical(q) \in unlinked[self] \/ q \in raced[self]

\* a call returned after its file vanished between the check and the unlink
C7_Witness ==
    \E self \in Procs :
        /\ Done(self)
        /\ raced[self] # {}
        /\ removed[self] # <<>>

\* C8: with one caller, when the call returns the path of every unique URL
\* that resolves is in candidates; a candidate is in removed exactly when
\* its file existed at the existence check and its deletion did not raise,
\* and then the file is gone; <<"/uploads/missing.jpg">> gives an empty
\* removed and the one candidate UPLOADS_DIR/missing.jpg.
C8_CandidatesAndRemoved ==
    Done(1) =>
        /\ \A u \in unique_urls(urls[1]) :
              local_upload_path_from_url(u) # None
                  => local_upload_path_from_url(u) \in Range(candidates[1])
        /\ \A q \in Range(candidates[1]) :
              /\ q \in Range(removed[1]) <=> (q \in seen[1] /\ q \notin failed[1])
              /\ q \in Range(removed[1]) => ~exists(q)
        /\ (urls[1] = <<U_MISSING>> /\ rootResolvable) =>
              /\ removed[1] = <<>>
              /\ candidates[1] = <<UPLOADS_DIR \o <<MISSING_JPG>>>>

\* a call listed the missing file as a candidate and removed another file
C8_Witness ==
    /\ Done(1)
    /\ UPLOADS_DIR \o <<MISSING_JPG>> \in Range(candidates[1])
    /\ Len(removed[1]) = 1
    /\ Len(candidates[1]) = 2

\* inputs that are not local uploads
InertUrls == {U_EMPTY, U_BLANK, U_DATA, U_EXTERNAL, U_BAD_IPV6, U_NO_SLASH}

\* C9: an inert input resolves to None; a list of inert inputs gives empty
\* lists and deletes nothing; the mixed scenario list, with a.jpg and b.png
\* on disk and deletable, gives a removed of exactly the two local paths
\* and a candidates equal to removed.
C9_InertInputs ==
    /\ \A u \in processed[1] \cap InertUrls : u \in absent[1]
    /\ (Done(1) /\ Range(urls[1]) \subseteq InertUrls) =>
          /\ removed[1] = <<>>
          /\ candidates[1] = <<>>
          /\ files = before[1]
    /\ (/\ Done(1)
        /\ urls[1] = SCENARIO_MIXED
        /\ UploadFiles \subseteq before[1]
        /\ failed[1] = {}) =>
          /\ Range(removed[1]) = UploadFiles
          /\ Len(removed[1]) = 2
          /\ candidates[1] = removed[1]
          /\ files = before[1] \ UploadFiles

\* the scenario call returned with both local files removed
C9_Witness ==
    /\ Done(1)
    /\ urls[1] = SCENARIO_MIXED
    /\ Len(removed[1]) = 2
    /\ {U_EXTERNAL, U_DATA} \subseteq absent[1]

\* canonicalization of the URL's joined path, or of UPLOADS_DIR, fails
CanonicalizationFails(u) ==
    /\ Unguarded(u) # None
    /\ \/ PathResolve(Unguarded(u)) = Failure
       \/ PathResolve(UPLOADS_DIR) = Failure

\* C10: when canonicalization of the joined path or of UPLOADS_DIR fails,
\* nothing is raised, the URL resolves to None, its path is in neither
\* list, and neither exists() nor unlink() is called on it.
C10_FailClosed ==
    /\ ~raised[1]
    /\ p[1] # None =>
          /\ PathResolve(p[1]) # Failure
          /\ PathResolve(UPLOADS_DIR) # Failure
    /\ \A u \in processed[1] :
          CanonicalizationFails(u) =>
              /\ u \in absent[1]
              /\ Unguarded(u) \notin Entries(1)
              /\ Unguarded(u) \notin seen[1] \cup attempted[1]

\* a call skipped the URL with chr(0) and listed another path
C10_Witness ==
    /\ Done(1)
    /\ U_NUL \in absent[1]
    /\ candidates[1] # <<>>

=============================================================================
